---- MODULE Spec2Model ----
(***************************************************************************)
(* Model of the serial OSC bridge (src/bridge/osc_bridge.py): the parser   *)
(* parse_arduino_data, the encoder create_osc_message, the subscriber      *)
(* registry websocket_clients with its connection handlers and broadcast,  *)
(* the ingestion loop read_arduino_data and the lifecycle of start_bridge. *)
(*                                                                         *)
(* The bridge runs on one asyncio event loop.  A coroutine runs without    *)
(* interruption from one await to the next, so every action below is one   *)
(* such synchronous segment of one task (or one event of the environment). *)
(***************************************************************************)
EXTENDS Integers, Sequences, FiniteSets, TLC

\* ------------------------------------------------------------------ bounds
NumSinks == 2          \* WebSocket connections that are ever opened
MaxRecords == 2        \* records the serial device ever sends
MaxLineLen == 3        \* length of the exhaustively enumerated parser inputs

Sinks == 1..NumSinks

\* ------------------------------------------------------------- characters
\* A line is a sequence of tokens.  A token is one character, except for
\*   "9x45", "9x400" : a run of 45 (400) consecutive characters '9';
\*   the member tokens of MemberText : the text of one JSON member,
\*   such as "pin":2 , which holds exactly one colon.
Whitespace == {" ", "\n", "\r"}
DigitChars == {"0", "1", "2", "3", "4", "5", "6", "7", "8", "9"}
RunChars == {"9x45", "9x400"}

DigitVal(c) ==
    CASE c = "0" -> 0 [] c = "1" -> 1 [] c = "2" -> 2 [] c = "3" -> 3
      [] c = "4" -> 4 [] c = "5" -> 5 [] c = "6" -> 6 [] c = "7" -> 7
      [] c = "8" -> 8 [] c = "9" -> 9

\* JSON values as json.loads returns them.  t is the Python type; n is the
\* integer the value holds (int), truncates to (float) or spells (numstr).
JInt(n) == [t |-> "int", n |-> n]
JFloat(n) == [t |-> "float", n |-> n]      \* a finite float in [n, n+1)
JNumStr(n) == [t |-> "numstr", n |-> n]    \* a str spelling the integer n
JStr == [t |-> "str", n |-> 0]             \* a str that spells no integer
JNull == [t |-> "null", n |-> 0]
JTrue == [t |-> "bool", n |-> 1]
JList == [t |-> "list", n |-> 0]
JInf == [t |-> "inf", n |-> 0]             \* 1e999, which json.loads reads as inf

\* The member tokens and the (key, value) each one spells.
MemberText ==
    {"\"pin\":2", "\"pin\":9", "\"pin\":1.5", "\"pin\":null", "\"pin\":\"3\"",
     "\"pin\":\"a\"", "\"pin\":[1]", "\"pin\":true",
     "\"value\":511", "\"value\":1023", "\"value\":0.5", "\"value\":null",
     "\"value\":\"7\"", "\"value\":\"a\"", "\"value\":1e999", "\"other\":1"}

MemberKey(m) ==
    CASE m \in {"\"pin\":2", "\"pin\":9", "\"pin\":1.5", "\"pin\":null",
                "\"pin\":\"3\"", "\"pin\":\"a\"", "\"pin\":[1]", "\"pin\":true"} -> "pin"
      [] m \in {"\"value\":511", "\"value\":1023", "\"value\":0.5", "\"value\":null",
                "\"value\":\"7\"", "\"value\":\"a\"", "\"value\":1e999"} -> "value"
      [] OTHER -> "other"

MemberValue(m) ==
    CASE m = "\"pin\":2" -> JInt(2)
      [] m = "\"pin\":9" -> JInt(9)
      [] m = "\"pin\":1.5" -> JFloat(1)
      [] m = "\"pin\":null" -> JNull
      [] m = "\"pin\":\"3\"" -> JNumStr(3)
      [] m = "\"pin\":\"a\"" -> JStr
      [] m = "\"pin\":[1]" -> JList
      [] m = "\"pin\":true" -> JTrue
      [] m = "\"value\":511" -> JInt(511)
      [] m = "\"value\":1023" -> JInt(1023)
      [] m = "\"value\":0.5" -> JFloat(0)
      [] m = "\"value\":null" -> JNull
      [] m = "\"value\":\"7\"" -> JNumStr(7)
      [] m = "\"value\":\"a\"" -> JStr
      [] m = "\"value\":1e999" -> JInf
      [] OTHER -> JInt(1)

\* --------------------------------------------------------- str operations
\* str.strip(): leading and trailing whitespace removed.
RECURSIVE LStrip(_)
LStrip(s) == IF s # <<>> /\ Head(s) \in Whitespace THEN LStrip(Tail(s)) ELSE s

RECURSIVE RStrip(_)
RStrip(s) ==
    IF s # <<>> /\ s[Len(s)] \in Whitespace THEN RStrip(SubSeq(s, 1, Len(s) - 1)) ELSE s

Strip(s) == RStrip(LStrip(s))

\* The colons of one token.
ColonsIn(c) == IF c = ":" \/ c \in MemberText THEN 1 ELSE 0

\* str.count(':')
RECURSIVE CountColons(_)
CountColons(s) == IF s = <<>> THEN 0 ELSE ColonsIn(Head(s)) + CountColons(Tail(s))

\* The index of the first ':' character of s (0 when there is none).
RECURSIVE FirstColon(_, _)
FirstColon(s, i) ==
    IF i > Len(s) THEN 0 ELSE IF s[i] = ":" THEN i ELSE FirstColon(s, i + 1)

\* ------------------------------------------------------------------ int()
\* A Python int: n is its value unless big > 0, and then its magnitude is at
\* least 10^big - 1 (its digits hold a run of big nines).
PyInt(n) == [n |-> n, big |-> 0]
PyBig(b) == [n |-> 0, big |-> b]

RunLen(c) == IF c = "9x45" THEN 45 ELSE IF c = "9x400" THEN 400 ELSE 0

RECURSIVE MaxRun(_)
MaxRun(s) ==
    IF s = <<>> THEN 0
    ELSE LET r == MaxRun(Tail(s)) IN IF RunLen(Head(s)) > r THEN RunLen(Head(s)) ELSE r

RECURSIVE DigitsValue(_, _)
DigitsValue(s, acc) ==
    IF s = <<>> THEN acc ELSE DigitsValue(Tail(s), 10 * acc + DigitVal(Head(s)))

\* int(str): optional surrounding whitespace, an optional sign, then one or
\* more digits.  ok = FALSE is ValueError.
IntOfStr(str) ==
    LET s == Strip(str)
        signed == s # <<>> /\ Head(s) \in {"+", "-"}
        digits == IF signed THEN Tail(s) ELSE s
        sign == IF signed /\ Head(s) = "-" THEN -1 ELSE 1
    IN  IF digits = <<>> \/ \E i \in 1..Len(digits) : digits[i] \notin DigitChars \cup RunChars
        THEN [ok |-> FALSE, raised |-> "ValueError", val |-> PyInt(0)]
        ELSE IF MaxRun(digits) > 0
        THEN [ok |-> TRUE, raised |-> "none", val |-> PyBig(MaxRun(digits))]
        ELSE [ok |-> TRUE, raised |-> "none", val |-> PyInt(sign * DigitsValue(digits, 0))]

\* int(x) for a value decoded by json.loads.
IntOfJson(v) ==
    CASE v.t \in {"int", "float", "numstr", "bool"} ->
            [ok |-> TRUE, raised |-> "none", val |-> PyInt(v.n)]
      [] v.t = "str" -> [ok |-> FALSE, raised |-> "ValueError", val |-> PyInt(0)]
      [] v.t = "inf" -> [ok |-> FALSE, raised |-> "OverflowError", val |-> PyInt(0)]
      [] OTHER -> [ok |-> FALSE, raised |-> "TypeError", val |-> PyInt(0)]

\* ------------------------------------------------------------- json.loads
\* The text s (stripped, starting with '{') decodes iff it is '{', members
\* separated by ',', '}'.  ok = FALSE is json.JSONDecodeError.
JsonWellFormed(s) ==
    /\ Len(s) >= 2
    /\ s[1] = "{"
    /\ s[Len(s)] = "}"
    /\ LET inner == SubSeq(s, 2, Len(s) - 1)
       IN  \/ inner = <<>>
           \/ /\ Len(inner) % 2 = 1
              /\ \A i \in 1..Len(inner) :
                    IF i % 2 = 1 THEN inner[i] \in MemberText ELSE inner[i] = ","

\* The indexes of the members of s with the given key.
MembersWith(s, key) ==
    {i \in 1..Len(s) : s[i] \in MemberText /\ MemberKey(s[i]) = key}

\* data[key] of the decoded object; a later member overrides an earlier one.
\* has = FALSE is KeyError.
JsonGet(s, key) ==
    LET at == MembersWith(s, key)
    IN  IF at = {} THEN [has |-> FALSE, v |-> JNull]
        ELSE [has |-> TRUE,
              v |-> MemberValue(s[CHOOSE i \in at : \A j \in at : j <= i])]

\* ------------------------------------------------------ parse_arduino_data
AnalogMax == 1023

\* A float: num / AnalogMax; big as for PyInt.
Normalized(value) == [num |-> value.n, den |-> AnalogMax, big |-> value.big]

\* value / 1023.0 raises OverflowError when the int does not fit a double.
DivisionOverflows(value) == value.big >= 400

ParsedNone == [raised |-> "none", some |-> FALSE, pin |-> PyInt(0), value |-> Normalized(PyInt(0))]
ParsedRaise(e) == [raised |-> e, some |-> FALSE, pin |-> PyInt(0), value |-> Normalized(PyInt(0))]
ParsedPair(pin, value) == [raised |-> "none", some |-> TRUE, pin |-> pin, value |-> Normalized(value)]

\* The exceptions the except clause of parse_arduino_data catches
\* (json.JSONDecodeError is a ValueError).
ParseCaught == {"ValueError", "KeyError"}

\* pin = int(..); value = int(..); normalized_value = value / 1023.0
\* for the two conversions' results, in the order the code evaluates them.
ParseFinish(pin, value) ==
    IF ~pin.ok
    THEN IF pin.raised \in ParseCaught THEN ParsedNone ELSE ParsedRaise(pin.raised)
    ELSE IF ~value.ok
    THEN IF value.raised \in ParseCaught THEN ParsedNone ELSE ParsedRaise(value.raised)
    ELSE IF DivisionOverflows(value.val) THEN ParsedRaise("OverflowError")
    ELSE ParsedPair(pin.val, value.val)

\* Format 1: 'pin:value'.  The line holds exactly one colon; when that colon
\* lies inside a member token, the text left of it is no integer.
ParseColonForm(s) ==
    LET k == FirstColon(s, 1)
    IN  IF k = 0 THEN ParsedNone
        ELSE ParseFinish(IntOfStr(SubSeq(s, 1, k - 1)), IntOfStr(SubSeq(s, k + 1, Len(s))))

\* Format 2: JSON.
ParseJsonForm(s) ==
    IF ~JsonWellFormed(s) THEN ParsedNone
    ELSE LET pin == JsonGet(s, "pin")
             value == JsonGet(s, "value")
         IN  IF ~pin.has THEN ParsedNone
             ELSE LET p == IntOfJson(pin.v)
                  IN  IF ~p.ok THEN ParseFinish(p, p)
                      ELSE IF ~value.has THEN ParsedNone
                      ELSE ParseFinish(p, IntOfJson(value.v))

parse_arduino_data(line) ==
    LET s == Strip(line)
    IN  IF s = <<>> THEN ParsedNone
        ELSE IF CountColons(s) = 1 THEN ParseColonForm(s)
        ELSE IF Head(s) = "{" THEN ParseJsonForm(s)
        ELSE ParsedNone

\* ------------------------------------------------------------ pin_mappings
\* The mutant of pin_mappings: a table with ten entries.
pin_mappings_ten ==
    (0 :> <<"/", "p", "o", "t", "1">>) @@ (1 :> <<"/", "p", "o", "t", "2">>) @@
    (2 :> <<"/", "p", "o", "t", "3">>) @@ (3 :> <<"/", "p", "o", "t", "4">>) @@
    (4 :> <<"/", "p", "o", "t", "5">>) @@ (5 :> <<"/", "p", "o", "t", "6">>) @@
    (6 :> <<"/", "p", "o", "t", "7">>) @@ (7 :> <<"/", "p", "o", "t", "8">>) @@
    (8 :> <<"/", "p", "o", "t", "9">>) @@ (9 :> <<"/", "p", "o", "t", "1", "0">>)

pin_mappings ==
    (0 :> <<"/", "p", "o", "t", "1">>) @@ (1 :> <<"/", "p", "o", "t", "2">>) @@
    (2 :> <<"/", "p", "o", "t", "3">>) @@ (3 :> <<"/", "p", "o", "t", "4">>) @@
    (4 :> <<"/", "p", "o", "t", "5">>) @@ (5 :> <<"/", "p", "o", "t", "6">>) @@
    (6 :> <<"/", "p", "o", "t", "7">>) @@ (7 :> <<"/", "p", "o", "t", "8">>)

\* pin in self.pin_mappings
Mapped(pin) == pin.big = 0 /\ pin.n \in DOMAIN pin_mappings

\* ------------------------------------------------------ create_osc_message
\* An OSC string: the characters, a NUL, and NULs up to a multiple of four.
RECURSIVE Nuls(_)
Nuls(n) == IF n = 0 THEN <<>> ELSE <<"NUL">> \o Nuls(n - 1)

OscString(chars) == chars \o Nuls(4 - (Len(chars) % 4))

\* struct.pack('>f', x) fails when x does not fit a 32-bit float.
Float32Overflows(value) == value.big >= 45

\* A datagram: the padded address, the padded type tags, the arguments
\* (four bytes each).  EmptyBytes is b''.
EmptyBytes == [address |-> <<>>, typetags |-> <<>>, args |-> <<>>]

\* The mutant of create_osc_message: the failure of the float encoding is
\* not turned into b''.
create_osc_message_unguarded(address, value) ==
    [address |-> OscString(address),
     typetags |-> OscString(<<",", "f">>),
     args |-> <<value>>]

create_osc_message(address, value) ==
    IF Float32Overflows(value) THEN EmptyBytes
    ELSE [address |-> OscString(address),
          typetags |-> OscString(<<",", "f">>),
          args |-> <<value>>]

\* What a listener decodes from a datagram: the address up to the first NUL.
RECURSIVE UpToNul(_)
UpToNul(s) ==
    IF s = <<>> \/ Head(s) = "NUL" THEN <<>> ELSE <<Head(s)>> \o UpToNul(Tail(s))

DgramLen(b) == Len(b.address) + Len(b.typetags) + 4 * Len(b.args)

\* ------------------------------------------------------------------- input
\* The text of the record 'c:v' followed by a newline, for one-digit c.
Digit(d) ==
    CASE d = 0 -> "0" [] d = 1 -> "1" [] d = 2 -> "2" [] d = 3 -> "3" [] d = 4 -> "4"
      [] d = 5 -> "5" [] d = 6 -> "6" [] d = 7 -> "7" [] d = 8 -> "8" [] d = 9 -> "9"

RECURSIVE Decimal(_)
Decimal(n) == IF n < 10 THEN <<Digit(n)>> ELSE Decimal(n \div 10) \o <<Digit(n % 10)>>

Record(c, v) == Decimal(c) \o <<":">> \o Decimal(v) \o <<"\n">>

\* The lines the serial device sends in this model.
InputLines ==
    { Record(2, 511), Record(9, 100),
      <<"n", "o", "t", " ", "v", "a", "l", "i", "d", "\n">>,
      <<"{", "\"pin\":null", ",", "\"value\":511", "}", "\n">>,
      <<"3", ":", "9x45", "\n">> }

\* The inputs of the parser alone: every line of at most MaxLineLen tokens
\* of ParseAlphabet, the JSON objects of at most two members, and InputLines.
ParseAlphabet == {"0", "2", "9", ":", " ", "-", "x", "{", "\n", "9x400"}

JsonLines ==
    {<<"{", "}">>}
    \cup {<<"{", m>> : m \in MemberText}
    \cup {<<"{", m, "}">> : m \in MemberText}
    \cup {<<"{", m[1], ",", m[2], "}">> : m \in MemberText \X MemberText}

ParseInputs ==
    UNION {[1..n -> ParseAlphabet] : n \in 0..MaxLineLen}
    \cup JsonLines \cup InputLines
    \cup {<<"1", ":", "2", ":", "3">>}

\* ------------------------------------------------------------------- state
VARIABLES
    mainPc,             \* start_bridge: "start", "failed", "gather", "finally", "stopped", "closed"
    running,            \* self.running
    serial_connection,  \* self.serial_connection: "none", "open", "closed"
    server,             \* websockets.serve: "off", "starting", "listening", "failed"
    websocket_clients,  \* self.websocket_clients
    conn,               \* each connection: "new", "open", "stalled", "closed", "gone"
    readerPc,           \* read_arduino_data: "off", "ready", "sleep", "cooldown", "send", "done", "cancelled"
    client,             \* the sink of the send in progress (0: none)
    iterRemaining,      \* the entries the set iterator of broadcast has yet to yield
    iterUsed,           \* the size of the set when the iterator was created
    disconnected,       \* the local set of broadcast_osc_message
    osc_bytes,          \* the datagram being broadcast
    in_waiting,         \* serial_connection.in_waiting, in lines: sent and not yet read
    nArrived,           \* lines the device has sent
    nRead,              \* history: the number of lines readline has returned
    sent,               \* history: for each sink the last pass that began sends to it:
                        \*   [rec, frame, n, prev]: its record, the frame sent, the sends
                        \*   begun, and the record of the pass that sent to it before
    delivered,          \* history: the sinks whose send of the current or last pass completed
    pass,               \* history: the current or last broadcast pass
    joinedMidPass,      \* history: the sinks of the set that were added during a pass
    lastCycle,          \* history: what the last polling cycle did: [kind, line]
    pLine, pDone, pOut, \* the parser alone: its input, whether it ran, its result
    osc_thread,         \* TouchOSC bridge: the thread of start_osc_server:
                        \*   "off", "starting", "serving", "failed"
    oscLog              \* TouchOSC bridge, history: the calls of osc_message_handler

vars ==
    <<mainPc, running, serial_connection, server, websocket_clients, conn, readerPc,
      client, iterRemaining, iterUsed, disconnected, osc_bytes, in_waiting, nArrived,
      nRead, sent, delivered, pass, joinedMidPass, lastCycle, pLine, pDone, pOut,
      osc_thread, oscLog>>

lifecycleVars == <<mainPc, running, serial_connection, server>>
iterVars == <<client, iterRemaining, iterUsed, disconnected, osc_bytes>>
inputVars == <<in_waiting, nArrived>>
historyVars == <<nRead, sent, delivered, pass, joinedMidPass, lastCycle>>
parserVars == <<pLine, pDone, pOut>>
touchVars == <<osc_thread, oscLog>>

NoSend == [rec |-> 0, frame |-> EmptyBytes, n |-> 0, prev |-> 0]

NoPass == [rec |-> 0, line |-> <<>>, start |-> {}, changed |-> FALSE, outcome |-> "none"]

\* OSCBridge.__init__
BridgeInit ==
    /\ mainPc = "start"
    /\ running = FALSE
    /\ serial_connection = "none"
    /\ server = "off"
    /\ websocket_clients = {}
    /\ conn = [s \in Sinks |-> "new"]
    /\ readerPc = "off"
    /\ client = 0
    /\ iterRemaining = {}
    /\ iterUsed = 0
    /\ disconnected = {}
    /\ osc_bytes = EmptyBytes
    /\ in_waiting = 0
    /\ nArrived = 0
    /\ nRead = 0
    /\ sent = [s \in Sinks |-> NoSend]
    /\ delivered = {}
    /\ pass = NoPass
    /\ joinedMidPass = {}
    /\ lastCycle = [kind |-> "none", line |-> <<>>]
    /\ osc_thread = "off"
    /\ oscLog = <<>>

Init ==
    /\ BridgeInit
    /\ pLine = <<>>
    /\ pDone = FALSE
    /\ pOut = ParsedNone

\* The event loop of asyncio.run is running tasks.
LoopAlive == mainPc \in {"gather", "finally", "stopped"}

\* The bridge is up: start_bridge awaits gather.  The events of the device
\* and of the connections are followed while it is; the few loop iterations
\* of the shutdown that follows are modelled without them.
Serving == mainPc = "gather"

ReaderAlive == readerPc \in {"ready", "sleep", "cooldown", "send"}

\* --------------------------------------------------------------- lifecycle
\* The mutant of InitBluetoothFails: running is set before the port is
\* acquired.
InitBluetoothFailsRunning ==
    /\ mainPc = "start"
    /\ mainPc' = "failed"
    /\ running' = TRUE
    /\ UNCHANGED <<serial_connection, server, websocket_clients, conn, readerPc,
                   iterVars, inputVars, historyVars, parserVars, touchVars>>

\* start_bridge, init_bluetooth returns False: logged, return False.
InitBluetoothFails ==
    /\ mainPc = "start"
    /\ mainPc' = "failed"
    /\ UNCHANGED <<running, serial_connection, server, websocket_clients, conn, readerPc,
                   iterVars, inputVars, historyVars, parserVars, touchVars>>

\* The mutant of StartBridge: the server and the reader are started without
\* the port having been acquired.
StartBridgeUnacquired ==
    /\ mainPc = "start"
    /\ serial_connection' = "none"
    /\ running' = TRUE
    /\ server' = "starting"
    /\ readerPc' = "ready"
    /\ mainPc' = "gather"
    /\ UNCHANGED <<websocket_clients, conn, iterVars, inputVars, historyVars, parserVars, touchVars>>

\* start_bridge, init_bluetooth returns True: the port is open, running is
\* set, the server object is made and gather schedules it and the reader.
StartBridge ==
    /\ mainPc = "start"
    /\ serial_connection' = "open"
    /\ running' = TRUE
    /\ server' = "starting"
    /\ readerPc' = "ready"
    /\ mainPc' = "gather"
    /\ UNCHANGED <<websocket_clients, conn, iterVars, inputVars, historyVars, parserVars, touchVars>>

\* The awaited websockets.serve completes: the server listens.
ServeStarts ==
    /\ mainPc = "gather"
    /\ server = "starting"
    /\ server' = "listening"
    /\ UNCHANGED <<mainPc, running, serial_connection, websocket_clients, conn, readerPc,
                   iterVars, inputVars, historyVars, parserVars, touchVars>>

\* The awaited websockets.serve raises (the port cannot be bound): gather
\* passes the exception on at once and leaves the reader task running.
ServeFails ==
    /\ mainPc = "gather"
    /\ server = "starting"
    /\ server' = "failed"
    /\ mainPc' = "finally"
    /\ UNCHANGED <<running, serial_connection, websocket_clients, conn, readerPc,
                   iterVars, inputVars, historyVars, parserVars, touchVars>>

\* The task of start_bridge is cancelled while it awaits gather (Ctrl-C
\* under asyncio.run): gather cancels the reader, which gets CancelledError
\* at its await (no except clause of the reader catches it), and only when
\* the reader has ended does start_bridge resume, in its finally clause.
Interrupt ==
    /\ mainPc = "gather"
    /\ mainPc' = "finally"
    /\ readerPc' = IF ReaderAlive THEN "cancelled" ELSE readerPc
    /\ pass' = IF readerPc = "send" THEN [pass EXCEPT !.outcome = "cancelled"] ELSE pass
    /\ client' = 0
    /\ iterRemaining' = {}
    /\ UNCHANGED <<running, serial_connection, server, websocket_clients, conn, iterUsed,
                   disconnected, osc_bytes, inputVars, nRead, sent, delivered,
                   joinedMidPass, lastCycle, parserVars, touchVars>>

\* The mutant of Finally: the port is closed and running is left set.
FinallyLeavesRunning ==
    /\ mainPc = "finally"
    /\ running' = running
    /\ serial_connection' = IF serial_connection = "none" THEN "none" ELSE "closed"
    /\ mainPc' = "stopped"
    /\ UNCHANGED <<server, websocket_clients, conn, readerPc, iterVars, inputVars,
                   historyVars, parserVars, touchVars>>

\* The finally clause of start_bridge.
Finally ==
    /\ mainPc = "finally"
    /\ running' = FALSE
    /\ serial_connection' = IF serial_connection = "none" THEN "none" ELSE "closed"
    /\ mainPc' = "stopped"
    /\ UNCHANGED <<server, websocket_clients, conn, readerPc, iterVars, inputVars,
                   historyVars, parserVars, touchVars>>

\* start_bridge has ended: asyncio.run cancels the tasks still alive (the
\* reader, and the connection handlers, whose finally clauses discard their
\* connections) and closes the loop.
Teardown ==
    /\ mainPc = "stopped"
    /\ mainPc' = "closed"
    /\ readerPc' = IF ReaderAlive THEN "cancelled" ELSE readerPc
    /\ pass' = IF readerPc = "send" THEN [pass EXCEPT !.outcome = "cancelled"] ELSE pass
    /\ client' = 0
    /\ iterRemaining' = {}
    /\ conn' = [s \in Sinks |-> IF conn[s] = "new" THEN "new" ELSE "gone"]
    /\ websocket_clients' = {}
    /\ joinedMidPass' = {}
    /\ UNCHANGED <<running, serial_connection, server, iterUsed, disconnected, osc_bytes,
                   inputVars, nRead, sent, delivered, lastCycle, parserVars, touchVars>>

\* ------------------------------------------------------------- environment
\* The device sends one more line.
Arrive ==
    /\ Serving
    /\ serial_connection = "open"
    /\ nArrived < MaxRecords
    /\ in_waiting' = in_waiting + 1
    /\ nArrived' = nArrived + 1
    /\ UNCHANGED <<lifecycleVars, websocket_clients, conn, readerPc, iterVars,
                   historyVars, parserVars, touchVars>>

\* The peer of the connection being sent to stops reading: the send stays
\* pending for as long as the connection stays open.
Stall(s) ==
    /\ Serving
    /\ readerPc = "send"
    /\ client = s
    /\ conn[s] = "open"
    /\ conn' = [conn EXCEPT ![s] = "stalled"]
    /\ UNCHANGED <<lifecycleVars, websocket_clients, readerPc, iterVars, inputVars,
                   historyVars, parserVars, touchVars>>

\* A connection closes: sends to it raise ConnectionClosed from now on and
\* wait_closed() of its handler completes.
ConnClose(s) ==
    /\ Serving
    /\ conn[s] \in {"open", "stalled"}
    /\ conn' = [conn EXCEPT ![s] = "closed"]
    /\ UNCHANGED <<lifecycleVars, websocket_clients, readerPc, iterVars, inputVars,
                   historyVars, parserVars, touchVars>>

\* ---------------------------------------------------- handle_websocket_client
\* A broadcast pass is suspended inside a send.
PassActive == readerPc = "send"

\* set.add(s) under a live iterator: the new entry lands in a table slot
\* before or after the iterator's position (later = TRUE: after, so it is
\* still to be yielded).  The table of a set that has held no more than four
\* entries is never rebuilt, so the entries already in it keep their slots.
AfterAdd(remaining, s, later) == IF later THEN remaining \cup {s} ELSE remaining

\* A connection is accepted: the handler adds it to the set and awaits
\* wait_closed().  Connections are numbered in the order they are accepted.
Subscribe(s) ==
    /\ Serving
    /\ server = "listening"
    /\ conn[s] = "new"
    /\ \A t \in Sinks : t < s => conn[t] # "new"
    /\ conn' = [conn EXCEPT ![s] = "open"]
    /\ websocket_clients' = websocket_clients \cup {s}
    /\ IF PassActive
       THEN /\ \E later \in BOOLEAN : iterRemaining' = AfterAdd(iterRemaining, s, later)
            /\ pass' = [pass EXCEPT !.changed = TRUE]
       ELSE UNCHANGED <<iterRemaining, pass>>
    /\ joinedMidPass' = IF PassActive THEN joinedMidPass \cup {s} ELSE joinedMidPass
    /\ UNCHANGED <<lifecycleVars, readerPc, client, iterUsed, disconnected, osc_bytes,
                   inputVars, nRead, sent, delivered, lastCycle, parserVars, touchVars>>

\* The mutant of discard: set.remove, which raises KeyError for an entry
\* that is not in the set.
remove(clients, s) == [raised |-> s \notin clients, clients |-> clients \ {s}]

\* set.discard(s): the entry is removed if it is there; nothing is raised.
discard(clients, s) == [raised |-> FALSE, clients |-> clients \ {s}]

\* wait_closed() has returned: the finally clause discards the connection
\* (under a live iterator the entry's table slot is emptied) and the handler
\* ends ("gone"; "faulted" if its finally clause raised).
Unsubscribe(s) ==
    /\ Serving
    /\ conn[s] = "closed"
    /\ conn' = [conn EXCEPT ![s] = IF discard(websocket_clients, s).raised
                                    THEN "faulted" ELSE "gone"]
    /\ websocket_clients' = discard(websocket_clients, s).clients
    /\ pass' = IF PassActive /\ s \in websocket_clients
               THEN [pass EXCEPT !.changed = TRUE] ELSE pass
    /\ joinedMidPass' = joinedMidPass \ {s}
    /\ UNCHANGED <<lifecycleVars, readerPc, iterVars, inputVars, nRead, sent, delivered,
                   lastCycle, parserVars, touchVars>>

\* -------------------------------------------------------- read_arduino_data
\* The mutant of Wakeable: the reader goes on to its next cycle while a send
\* of the broadcast is still pending.
WakeableDuringSend == LoopAlive /\ readerPc \in {"ready", "sleep", "cooldown", "send"}

\* The reader is at the top of its loop or suspended in one of its sleeps,
\* and the loop can resume it.
Wakeable == LoopAlive /\ readerPc \in {"ready", "sleep", "cooldown"}

\* while self.running: the flag is clear, the coroutine returns.
LoopExit ==
    /\ Wakeable
    /\ ~running
    /\ readerPc' = "done"
    /\ UNCHANGED <<lifecycleVars, websocket_clients, conn, iterVars, inputVars,
                   historyVars, parserVars, touchVars>>

\* in_waiting is 0: nothing is read; await asyncio.sleep(0.01).
PollIdle ==
    /\ Wakeable
    /\ running
    /\ serial_connection = "open"
    /\ in_waiting = 0
    /\ readerPc' = "sleep"
    /\ lastCycle' = [kind |-> "idle", line |-> <<>>]
    /\ UNCHANGED <<lifecycleVars, websocket_clients, conn, iterVars, inputVars,
                   nRead, sent, delivered, pass, joinedMidPass, parserVars, touchVars>>

\* in_waiting or readline raises serial.SerialException (always, on a closed
\* port): logged; await asyncio.sleep(1).
ReadFault ==
    /\ Wakeable
    /\ running
    /\ serial_connection \in {"open", "closed"}
    /\ readerPc' = "cooldown"
    /\ lastCycle' = [kind |-> "read_error", line |-> <<>>]
    /\ UNCHANGED <<lifecycleVars, websocket_clients, conn, iterVars, inputVars,
                   nRead, sent, delivered, pass, joinedMidPass, parserVars, touchVars>>

\* What one record comes to, short of a broadcast:
\* the stage that drops it, or "broadcast".
Disposition(line) ==
    LET parsed == parse_arduino_data(line)
    IN  IF parsed.raised # "none" THEN "parse_raised"
        ELSE IF ~parsed.some THEN "unparseable"
        ELSE IF ~Mapped(parsed.pin) THEN "unmapped"
        ELSE IF DgramLen(create_osc_message(pin_mappings[parsed.pin.n], parsed.value)) = 0
        THEN "encode_fault"
        ELSE "broadcast"

\* The datagram of a record that is broadcast.
FrameOf(line) ==
    LET parsed == parse_arduino_data(line)
    IN  create_osc_message(pin_mappings[parsed.pin.n], parsed.value)

\* The mutant of DropsTo: every cycle that sends nothing ends in the error
\* handler's sleep(1).
DropsToCooldown(kind) == "cooldown"

\* The await the reader reaches after a record is dropped: the error
\* handler's sleep(1) after an exception, else the polling sleep(0.01).
DropsTo(kind) == IF kind = "parse_raised" THEN "cooldown" ELSE "sleep"

\* await client.send(osc_bytes) begins for the sink the iterator yields.
BeginSend(nxt, rec, frame, remaining) ==
    /\ client' = nxt
    /\ iterRemaining' = remaining \ {nxt}
    /\ sent' = [sent EXCEPT ![nxt] = [rec |-> rec, frame |-> frame,
                                       n |-> IF @.rec = rec THEN @.n + 1 ELSE 1,
                                       prev |-> IF @.rec = rec THEN @.prev ELSE @.rec]]
    /\ readerPc' = "send"

\* A line is waiting: readline returns it (line); parse, map, encode, and
\* the call of broadcast_osc_message up to its first await.
ReadRecord(line) ==
    /\ Wakeable
    /\ running
    /\ serial_connection = "open"
    /\ in_waiting > 0
    /\ LET kind == Disposition(line)
           rec == nRead + 1
       IN  /\ in_waiting' = in_waiting - 1
           /\ nRead' = nRead + 1
           /\ IF kind # "broadcast"
              THEN /\ readerPc' = DropsTo(kind)
                   /\ lastCycle' = [kind |-> kind, line |-> line]
                   /\ UNCHANGED <<iterVars, sent, delivered, pass>>
              ELSE IF websocket_clients = {}
              THEN /\ readerPc' = DropsTo("no_clients")
                   /\ lastCycle' = [kind |-> "no_clients", line |-> line]
                   /\ UNCHANGED <<iterVars, sent, delivered, pass>>
              ELSE /\ lastCycle' = [kind |-> "broadcast", line |-> line]
                   /\ osc_bytes' = FrameOf(line)
                   /\ disconnected' = {}
                   /\ delivered' = {}
                   /\ iterUsed' = Cardinality(websocket_clients)
                   /\ pass' = [rec |-> rec, line |-> line, start |-> websocket_clients,
                               changed |-> FALSE, outcome |-> "active"]
                   /\ \E first \in websocket_clients :
                         BeginSend(first, rec, FrameOf(line), websocket_clients)
    /\ UNCHANGED <<lifecycleVars, websocket_clients, conn, nArrived, joinedMidPass,
                   parserVars, touchVars>>

\* ---------------------------------------------------- broadcast_osc_message
\* client.send raises (ConnectionClosed) for a connection that has closed.
SendFails(s) == conn[s] \in {"closed", "gone"}

\* The mutant of IterNext: the loop walks a copy of the set made when the
\* pass began.
IterNextOverCopy(remaining, clients, used) == [raised |-> FALSE, yields |-> remaining]

\* next() of the set iterator: RuntimeError when the set's size is not the
\* size it had when the iterator was made; else it yields one of the
\* entries not yet yielded whose slot still holds it (none: StopIteration).
IterNext(remaining, clients, used) ==
    IF Cardinality(clients) # used
    THEN [raised |-> TRUE, yields |-> {}]
    ELSE [raised |-> FALSE, yields |-> remaining \cap clients]

\* The mutant of Pruned: the failed sinks are left in the set.
PrunedNothing(clients, failed) == clients

\* self.websocket_clients -= disconnected
Pruned(clients, failed) == clients \ failed

\* The pending send completes or raises; the failure is noted; the for loop
\* asks the iterator for the next sink: RuntimeError (caught by the reader's
\* except Exception: sleep(1)), the next send, or the end of the loop, the
\* pruning and the return to the reader, which sleeps (0.01).
SendComplete ==
    /\ LoopAlive
    /\ readerPc = "send"
    /\ conn[client] # "stalled"
    /\ LET failed == IF SendFails(client) THEN disconnected \cup {client} ELSE disconnected
           next == IterNext(iterRemaining, websocket_clients, iterUsed)
       IN  /\ disconnected' = failed
           /\ delivered' = IF SendFails(client) THEN delivered ELSE delivered \cup {client}
           /\ IF next.raised
              THEN /\ readerPc' = "cooldown"
                   /\ lastCycle' = [kind |-> "broadcast_raised", line |-> pass.line]
                   /\ pass' = [pass EXCEPT !.outcome = "raised"]
                   /\ client' = 0
                   /\ iterRemaining' = {}
                   /\ UNCHANGED <<websocket_clients, sent, joinedMidPass>>
              ELSE IF next.yields # {}
              THEN /\ \E nxt \in next.yields :
                         BeginSend(nxt, pass.rec, osc_bytes, next.yields)
                   /\ UNCHANGED <<websocket_clients, pass, lastCycle, joinedMidPass>>
              ELSE /\ websocket_clients' = Pruned(websocket_clients, failed)
                   /\ joinedMidPass' = joinedMidPass \cap websocket_clients'
                   /\ readerPc' = "sleep"
                   /\ pass' = [pass EXCEPT !.outcome = "returned"]
                   /\ client' = 0
                   /\ iterRemaining' = {}
                   /\ UNCHANGED <<sent, lastCycle>>
    /\ UNCHANGED <<lifecycleVars, conn, iterUsed, osc_bytes, inputVars, nRead, parserVars, touchVars>>

\* ---------------------------------------------------------- the parser alone
\* parse_arduino_data applied to one line.
ParseApply ==
    /\ ~pDone
    /\ pDone' = TRUE
    /\ pOut' = parse_arduino_data(pLine)
    /\ UNCHANGED <<lifecycleVars, websocket_clients, conn, readerPc, iterVars, inputVars,
                   historyVars, pLine, touchVars>>

ParseInit ==
    /\ BridgeInit
    /\ pLine \in ParseInputs
    /\ pDone = FALSE
    /\ pOut = ParsedNone

ParseSpec == ParseInit /\ [][ParseApply]_vars

\* ----------------------------------------------------------- specification
Next ==
    \/ InitBluetoothFails
    \/ StartBridge
    \/ ServeStarts
    \/ ServeFails
    \/ Interrupt
    \/ Finally
    \/ Teardown
    \/ Arrive
    \/ \E s \in Sinks : Stall(s)
    \/ \E s \in Sinks : ConnClose(s)
    \/ \E s \in Sinks : Subscribe(s)
    \/ \E s \in Sinks : Unsubscribe(s)
    \/ LoopExit
    \/ PollIdle
    \/ ReadFault
    \/ \E line \in InputLines : ReadRecord(line)
    \/ SendComplete

Spec == Init /\ [][Next]_vars

\* ========================================================= TouchOSC bridge
\* src/bridge/touchosc_bridge.py.  The class has the same registry and the
\* same handler as the serial bridge; its fields running, websocket_clients
\* and the connections are modelled by the same variables, mainPc is the
\* position of its start_bridge ("start", "awaiting", "returned", "crashed",
\* "closed") and server is its websockets.serve.
serialVars ==
    <<serial_connection, readerPc, iterVars, inputVars, nRead, sent, delivered, pass,
      joinedMidPass, lastCycle>>

\* The messages TouchOSC sends: an address and the arguments as the
\* dispatcher hands them to the handler (Python values).
OscMessages ==
    { [address |-> <<"/", "a">>, args |-> <<>>],
      [address |-> <<"/", "x">>, args |-> <<[py |-> "float", v |-> 1]>>],
      [address |-> <<"/", "y">>, args |-> <<[py |-> "int", v |-> 3], [py |-> "str", v |-> 0]>>] }

\* OscMessageBuilder.add_arg without a type: the tag is inferred from the
\* Python type of the value.
TagOf(arg) == IF arg.py = "float" THEN "f" ELSE IF arg.py = "int" THEN "i" ELSE "s"

\* builder.build().dgram
osc_dgram(address, args) ==
    [address |-> OscString(address),
     typetags |-> OscString(<<",">> \o [i \in 1..Len(args) |-> TagOf(args[i])]),
     args |-> args]

\* asyncio.create_task: it takes the loop running in the calling thread and
\* raises RuntimeError ('no running event loop') in a thread that runs none.
create_task(inLoopThread) == IF inLoopThread THEN "scheduled" ELSE "RuntimeError"

\* The process of the TouchOSC bridge is alive and its event loop runs.
TouchLoopAlive == mainPc \in {"awaiting", "returned"}

\* start_bridge up to its await: the thread of start_osc_server is started,
\* the server object is made, running is set.
TouchStartBridge ==
    /\ mainPc = "start"
    /\ osc_thread' = "starting"
    /\ server' = "starting"
    /\ running' = TRUE
    /\ mainPc' = "awaiting"
    /\ UNCHANGED <<websocket_clients, conn, serialVars, parserVars, oscLog>>

\* start_osc_server: the UDP socket is bound; serve_forever.
OscServerStarts ==
    /\ TouchLoopAlive
    /\ osc_thread = "starting"
    /\ osc_thread' = "serving"
    /\ UNCHANGED <<lifecycleVars, websocket_clients, conn, serialVars, parserVars, oscLog>>

\* start_osc_server: the UDP port cannot be bound; the thread ends with the
\* exception and the bridge goes on without it.
OscServerFails ==
    /\ TouchLoopAlive
    /\ osc_thread = "starting"
    /\ osc_thread' = "failed"
    /\ UNCHANGED <<lifecycleVars, websocket_clients, conn, serialVars, parserVars, oscLog>>

\* await websocket_server completes: the server listens, and start_bridge,
\* which has nothing after the await, returns: asyncio.run begins to shut
\* the loop down.
TouchServeStarts ==
    /\ mainPc = "awaiting"
    /\ server = "starting"
    /\ server' = "listening"
    /\ mainPc' = "returned"
    /\ UNCHANGED <<running, serial_connection, websocket_clients, conn, readerPc, iterVars,
                   inputVars, historyVars, parserVars, touchVars>>

\* await websocket_server raises (the port cannot be bound): the exception
\* leaves start_bridge and asyncio.run; main catches KeyboardInterrupt only.
TouchServeFails ==
    /\ mainPc = "awaiting"
    /\ server = "starting"
    /\ server' = "failed"
    /\ mainPc' = "crashed"
    /\ osc_thread' = "off"
    /\ UNCHANGED <<running, serial_connection, websocket_clients, conn, readerPc, iterVars,
                   inputVars, historyVars, parserVars, oscLog>>

\* asyncio.run ends: the handler tasks it finds are cancelled (their finally
\* clauses discard their connections; a handler task made after that is
\* destroyed pending and discards nothing), the loop is closed, main returns
\* and the daemon thread dies with the process.
TouchTeardown ==
    /\ mainPc = "returned"
    /\ mainPc' = "closed"
    /\ osc_thread' = "off"
    /\ \E kept \in SUBSET websocket_clients : websocket_clients' = kept
    /\ conn' = [s \in Sinks |-> IF conn[s] = "new" THEN "new" ELSE "gone"]
    /\ UNCHANGED <<running, serial_connection, server, readerPc, iterVars, inputVars,
                   historyVars, parserVars, oscLog>>

\* websocket_handler: a connection is accepted while the loop still runs.
TouchSubscribe(s) ==
    /\ mainPc = "returned"
    /\ server = "listening"
    /\ conn[s] = "new"
    /\ \A t \in Sinks : t < s => conn[t] # "new"
    /\ conn' = [conn EXCEPT ![s] = "open"]
    /\ websocket_clients' = websocket_clients \cup {s}
    /\ UNCHANGED <<lifecycleVars, serialVars, parserVars, touchVars>>

\* A connection closes.
TouchConnClose(s) ==
    /\ mainPc = "returned"
    /\ conn[s] = "open"
    /\ conn' = [conn EXCEPT ![s] = "closed"]
    /\ UNCHANGED <<lifecycleVars, websocket_clients, serialVars, parserVars, touchVars>>

\* websocket_handler: wait_closed() has returned; finally: discard.
TouchUnsubscribe(s) ==
    /\ mainPc = "returned"
    /\ conn[s] = "closed"
    /\ conn' = [conn EXCEPT ![s] = "gone"]
    /\ websocket_clients' = websocket_clients \ {s}
    /\ UNCHANGED <<lifecycleVars, serialVars, parserVars, touchVars>>

\* osc_message_handler, called by the dispatcher in a thread of the
\* ThreadingOSCUDPServer: the message is built again, the coroutine object
\* of broadcast_osc_message is made and handed to asyncio.create_task; what
\* create_task raises is caught and logged.
osc_message_handler(msg) ==
    /\ TouchLoopAlive
    /\ osc_thread = "serving"
    /\ Len(oscLog) < MaxRecords
    /\ LET made == create_task(FALSE)
       IN  oscLog' = Append(oscLog, [address |-> msg.address,
                                     args |-> msg.args,
                                     clients |-> websocket_clients,
                                     dgram |-> osc_dgram(msg.address, msg.args),
                                     task |-> made = "scheduled",
                                     error |-> IF made = "scheduled" THEN "none" ELSE made])
    /\ UNCHANGED <<lifecycleVars, websocket_clients, conn, serialVars, parserVars, osc_thread>>

TouchNext ==
    \/ TouchStartBridge
    \/ OscServerStarts
    \/ OscServerFails
    \/ TouchServeStarts
    \/ TouchServeFails
    \/ TouchTeardown
    \/ \E s \in Sinks : TouchSubscribe(s)
    \/ \E s \in Sinks : TouchConnClose(s)
    \/ \E s \in Sinks : TouchUnsubscribe(s)
    \/ \E msg \in OscMessages : osc_message_handler(msg)

TouchSpec == Init /\ [][TouchNext]_vars

\* ------------------------------------------------------------------ claims
\* The reader's own steps.
ReaderNext ==
    \/ LoopExit
    \/ PollIdle
    \/ ReadFault
    \/ \E line \in InputLines : ReadRecord(line)
    \/ SendComplete

\* A send to sink s was begun in the pass of record rec.
Attempted(s, rec) == sent[s].rec = rec

\* The removal of sink s from the active set has completed: its handler has
\* run discard, or it was added once and is in the set no longer.
RemovalCompleted(s) == conn[s] = "gone" \/ (conn[s] # "new" /\ s \notin websocket_clients)

\* C1: broadcast completes a full pass even when a connection handler adds
\* or discards a sink while the pass is suspended inside a send: the pass
\* never fails, and when it has ended every sink that was in the set when it
\* began and is still subscribed has had a send attempted.
C1_PassSurvivesRegistryChange ==
    /\ pass.outcome # "raised"
    /\ pass.outcome = "returned" =>
          \A s \in pass.start \cap websocket_clients : Attempted(s, pass.rec)

\* C2: at the return of a broadcast pass every sink whose send failed is
\* absent from the active set, every sink the pass sent to without a failure
\* has received the payload, and every sink that was in the set when the pass
\* began and is still in it when the loop ends has been sent to; when no
\* handler changed the set during the pass, the set is left as the sinks that
\* did not fail; and a pass never raises unless the set was changed under it
\* (a failed send alone raises nothing).
C2_Returns ==
    (pass.outcome = "active" /\ pass'.outcome = "returned") =>
        /\ disconnected' \cap websocket_clients' = {}
        /\ \A s \in Sinks :
              (Attempted(s, pass.rec)' /\ s \notin disconnected') => s \in delivered'
        /\ \A s \in pass.start \cap websocket_clients : Attempted(s, pass.rec)'
        /\ ~pass.changed => websocket_clients' = pass.start \ disconnected'

C2_Raises ==
    (pass.outcome = "active" /\ pass'.outcome = "raised") => pass.changed

C2_FailedSinksPruned == [][C2_Returns /\ C2_Raises]_vars

\* C2 witness: a pass over two or more sinks, untouched by the handlers, has
\* returned after one send failed and another was delivered.
C2_Witness ==
    /\ pass.outcome = "returned"
    /\ ~pass.changed
    /\ \E s \in pass.start : s \in disconnected /\ s \notin websocket_clients
    /\ \E s \in pass.start : s \in delivered /\ s \in websocket_clients

\* C3: the ingestion loop never blocks on a subscriber: whenever the reader
\* task is alive it has a step it can take (it is never left waiting on a
\* send that does not complete).
C3_ReaderNeverBlocked == (LoopAlive /\ ReaderAlive) => ENABLED ReaderNext

\* C4: a sink added while a pass was in progress has a send attempted in
\* every later pass that it is subscribed throughout.
C4_LaterPassesReachJoiner ==
    \A s \in Sinks :
        ( /\ s \in joinedMidPass
          /\ pass.outcome \in {"returned", "raised"}
          /\ s \in pass.start
          /\ s \in websocket_clients )
        => Attempted(s, pass.rec)

\* C5: once the removal of a sink from the active set has completed, no send
\* to it is begun again, by a later pass or by the pass in progress.
C5_NoSendAfterRemoval ==
    [][\A s \in Sinks : sent'[s] # sent[s] => ~RemovalCompleted(s)]_vars

\* C5 witness: a sink has been removed; a pass that began before the removal
\* or after it has gone on to send to another sink.
C5_Witness ==
    \E s \in Sinks :
        /\ RemovalCompleted(s)
        /\ Attempted(s, 1)
        /\ \E t \in Sinks \ {s} : sent[t].rec >= 2

\* C6: no recoverable fault stops the ingestion loop.  After a cycle that
\* met a fault (an unparseable record, an unmapped channel, an encode fault,
\* a failed send, a read error) and while running is set, the reader is
\* alive and, once suspended in its sleep, can start another cycle, the
\* read error having led to the cooldown sleep; and the reader has ended
\* only if running has been cleared.
FaultKinds ==
    {"unparseable", "unmapped", "encode_fault", "parse_raised", "read_error",
     "broadcast_raised"}

C6_OnlyShutdownStopsLoop ==
    /\ (running /\ (lastCycle.kind \in FaultKinds \/ disconnected # {})) =>
          /\ ReaderAlive
          /\ (readerPc \in {"sleep", "cooldown"} /\ LoopAlive) =>
                ENABLED (PollIdle \/ ReadFault \/ \E line \in InputLines : ReadRecord(line))
          /\ lastCycle.kind = "read_error" => readerPc = "cooldown"
    /\ readerPc \in {"done", "cancelled"} => ~running

\* The lines the parser must answer with none: empty lines, lines of neither
\* grammar, lines with one colon whose sides are not both integers, and
\* objects that do not decode or lack an integer pin or value.
IsIntText(str) ==
    LET s == Strip(str)
        d == IF s # <<>> /\ Head(s) \in {"+", "-"} THEN Tail(s) ELSE s
    IN  d # <<>> /\ \A i \in 1..Len(d) : d[i] \in DigitChars \cup RunChars

IntegerField(line, key) ==
    \E i \in 1..Len(line) :
        /\ line[i] \in MemberText
        /\ MemberKey(line[i]) = key
        /\ \A j \in (i + 1)..Len(line) : ~(line[j] \in MemberText /\ MemberKey(line[j]) = key)
        /\ MemberValue(line[i]).t \in {"int", "float", "numstr", "bool"}

MustYieldNone(line) ==
    LET s == Strip(line)
    IN  \/ s = <<>>
        \/ CountColons(s) # 1 /\ Head(s) # "{"
        \/ /\ CountColons(s) = 1
           /\ \/ FirstColon(s, 1) = 0
              \/ ~IsIntText(SubSeq(s, 1, FirstColon(s, 1) - 1))
              \/ ~IsIntText(SubSeq(s, FirstColon(s, 1) + 1, Len(s)))
        \/ /\ CountColons(s) # 1
           /\ Head(s) = "{"
           /\ (s \notin JsonLines \/ s[Len(s)] # "}"
               \/ ~IntegerField(s, "pin") \/ ~IntegerField(s, "value"))

\* C7: parse_arduino_data never raises: for every line it returns a pair or
\* none, and every line that is empty, matches neither grammar or fails
\* integer or structured decoding yields none.
C7_ParseNeverRaises ==
    pDone =>
        /\ pOut.raised = "none"
        /\ MustYieldNone(pLine) => ~pOut.some

\* The address and the value a record 'c:v' must go out with.
PotAddress(c) == <<"/", "p", "o", "t", Digit(c + 1)>>
ValueOver1023(v) == [num |-> v, den |-> 1023, big |-> 0]

\* Every record 'c:v', c in 0..7 and v in 0..1023, is parsed, mapped and
\* encoded into one datagram of 16 bytes that decodes to /pot<c+1> and v/1023.
C8_EveryRecordEncodes ==
    \A c \in 0..7 : \A v \in 0..1023 :
        /\ Disposition(Record(c, v)) = "broadcast"
        /\ UpToNul(FrameOf(Record(c, v)).address) = PotAddress(c)
        /\ UpToNul(FrameOf(Record(c, v)).typetags) = <<",", "f">>
        /\ FrameOf(Record(c, v)).args = <<ValueOver1023(v)>>
        /\ DgramLen(FrameOf(Record(c, v))) = 16

\* The number of sends of the pass of record rec begun to sink s.
SendsOf(s, rec) == IF sent[s].rec = rec THEN sent[s].n ELSE 0

\* The records 'c:v' the runs are examined for: every channel with the least,
\* a middle and the greatest value.
C8_Samples ==
    {[c |-> c, v |-> v, line |-> Record(c, v)] : c \in 0..7, v \in {0, 511, 1023}}

\* C8: a record 'c:v' with c in 0..7 and v in 0..1023 is never dropped: it
\* is handed to broadcast as one frame; every send of its pass carries that
\* frame, with address /pot<c+1> and the single value v/1023; no sink is sent
\* it twice; and when its pass has ended every subscriber that was in the set
\* when the pass began and is still subscribed has been sent it.
C8_OneFramePerRecord ==
    /\ C8_EveryRecordEncodes
    /\ \A r \in C8_Samples :
          /\ lastCycle.line = r.line =>
                lastCycle.kind \in {"broadcast", "no_clients", "broadcast_raised"}
          /\ (pass.line = r.line /\ pass.outcome # "none") =>
                /\ \A s \in Sinks :
                      /\ SendsOf(s, pass.rec) <= 1
                      /\ Attempted(s, pass.rec) =>
                            /\ UpToNul(sent[s].frame.address) = PotAddress(r.c)
                            /\ sent[s].frame.args = <<ValueOver1023(r.v)>>
                /\ pass.outcome \in {"returned", "raised"} =>
                      \A s \in pass.start \cap websocket_clients :
                          SendsOf(s, pass.rec) = 1

\* The line parses to a channel that is none of 0..7.
UnmappedRecord(line) ==
    /\ parse_arduino_data(line).some
    /\ ~(parse_arduino_data(line).pin.big = 0 /\ parse_arduino_data(line).pin.n \in 0..7)

\* C9: the cycle that reads a record whose channel is none of 0..7 begins no
\* send, leaves the registry and the broadcast state as they were, and ends
\* in the polling sleep with the record consumed; and every send ever begun
\* belongs to the pass of the record last read, which is a mapped one: a
\* dropped record is never sent in a later cycle.
C9_Step ==
    /\ (nRead' = nRead + 1 /\ UnmappedRecord(lastCycle'.line)) =>
          /\ sent' = sent
          /\ websocket_clients' = websocket_clients
          /\ <<client, iterRemaining, disconnected, osc_bytes, pass>>' =
                <<client, iterRemaining, disconnected, osc_bytes, pass>>
          /\ in_waiting' = in_waiting - 1
          /\ readerPc' = "sleep"
    /\ \A s \in Sinks :
          sent'[s] # sent[s] =>
             /\ sent'[s].rec = nRead'
             /\ pass'.rec = nRead'
             /\ ~UnmappedRecord(pass'.line)

C9_UnmappedDropped == [][C9_Step]_vars

\* C9 witness: with a subscriber in the set, the record "9:100" has been read
\* and nothing was sent for it.
C9_Witness ==
    /\ lastCycle.kind = "unmapped"
    /\ lastCycle.line = Record(9, 100)
    /\ websocket_clients # {}
    /\ \A s \in Sinks : ~Attempted(s, nRead)

\* C10: after the stop path of start_bridge has run, running is cleared, the
\* serial port is released and the registry is empty.
C10_StoppedClean ==
    mainPc \in {"stopped", "closed"} =>
        /\ ~running
        /\ serial_connection # "open"
        /\ websocket_clients = {}

\* No send has ever been begun.
NothingSent == \A s \in Sinks : sent[s] = NoSend

\* C11: when init_bluetooth returns False, start_bridge returns False to its
\* caller with running never set, no reader task and no server made, so no
\* connection has been accepted, no line read and no frame sent; and nothing
\* happens afterwards.
C11_FailedAcquisitionStartsNothing ==
    mainPc = "failed" =>
        /\ ~running
        /\ serial_connection = "none"
        /\ readerPc = "off"
        /\ server = "off"
        /\ websocket_clients = {}
        /\ \A s \in Sinks : conn[s] = "new"
        /\ nRead = 0
        /\ NothingSent
        /\ ~ENABLED Next

\* C11 witness: start_bridge has returned False.
C11_Witness == mainPc = "failed" /\ ~running

\* C13: the cycle that broadcasts a record while the active set is empty
\* begins no send, does not suspend in broadcast (the reader is at once in
\* the polling sleep that follows the call, with no pass begun and no
\* iterator state) and leaves the set empty.
C13_Step ==
    ( /\ nRead' = nRead + 1
      /\ Disposition(lastCycle'.line) = "broadcast"
      /\ websocket_clients = {} )
    => /\ sent' = sent
       /\ websocket_clients' = {}
       /\ readerPc' = "sleep"
       /\ <<client, iterRemaining, disconnected, pass>>' =
             <<client, iterRemaining, disconnected, pass>>

C13_EmptyBroadcastIsNoop == [][C13_Step]_vars

\* C13 witness: the record "2:511" has been read and encoded with nobody
\* subscribed.
C13_Witness ==
    /\ lastCycle.kind = "no_clients"
    /\ lastCycle.line = Record(2, 511)
    /\ websocket_clients = {}
    /\ readerPc = "sleep"

\* C14: removing a sink that is no longer in the active set changes nothing
\* and raises nothing: the handler whose connection broadcast has already
\* pruned ends normally, with the set, the reader and the pass as they were;
\* and the pruning at the end of a pass leaves exactly the sinks that did
\* not fail, whether or not a handler has removed a failed sink before it.
C14_Step ==
    /\ \A s \in Sinks :
          ( /\ conn[s] = "closed"
            /\ conn'[s] # "closed"
            /\ \A t \in Sinks \ {s} : conn'[t] = conn[t]
            /\ s \notin websocket_clients )
          => /\ conn'[s] = "gone"
             /\ websocket_clients' = websocket_clients
             /\ readerPc' = readerPc
             /\ pass' = pass
    /\ (pass.outcome = "active" /\ pass'.outcome = "returned") =>
          websocket_clients' = websocket_clients \ disconnected'

C14_UnsubscribeIdempotent == [][C14_Step]_vars

\* C14 witness: a pass pruned a sink whose send had failed, and afterwards
\* the handler of that connection ran its discard and ended.
C14_Witness ==
    \E s \in Sinks :
        /\ pass.outcome = "returned"
        /\ ~pass.changed
        /\ s \in disconnected
        /\ conn[s] = "gone"
        /\ mainPc = "gather"

\* C15: a polling cycle that reads takes every line that is waiting at that
\* moment: the lines it reads are as many as were waiting, and none of them
\* is left for a later cycle.
C15_CycleReadsAllWaiting ==
    [][nRead' # nRead => (nRead' - nRead = in_waiting /\ in_waiting' = 0)]_vars

\* The reader can start a polling cycle.
CanStartCycle == ENABLED (PollIdle \/ ReadFault \/ \E line \in InputLines : ReadRecord(line))

\* C16: once shutdown has cleared running, the reader starts no new cycle
\* and is never interrupted: the cycle in flight (a polling sleep, a
\* broadcast, a cooldown) runs to its end, and the reader ends only by
\* finding the flag clear at the top of its loop.
C16_ShutdownIsCooperative ==
    mainPc \in {"stopped", "closed"} =>
        /\ ~running
        /\ ~CanStartCycle
        /\ readerPc # "cancelled"
        /\ pass.outcome # "cancelled"

\* C17: as long as the serial port has not been acquired no connection has
\* been accepted, the set is empty, the server and the reader have not been
\* started, and no cycle has run: the first subscribe and the first read
\* come after the acquisition.
C17_AcquireBeforeServing ==
    serial_connection = "none" =>
        /\ websocket_clients = {}
        /\ \A s \in Sinks : conn[s] = "new"
        /\ server = "off"
        /\ readerPc = "off"
        /\ nRead = 0
        /\ lastCycle.kind = "none"
        /\ ~running

\* C17 witness: with the port acquired, a subscriber is in the set and a
\* line has been read.
C17_Witness ==
    /\ serial_connection = "open"
    /\ websocket_clients # {}
    /\ nRead > 0

\* The line parses to a mapped channel and a value the encoder cannot pack.
EncodeFaultLine(line) ==
    /\ parse_arduino_data(line).raised = "none"
    /\ parse_arduino_data(line).some
    /\ Mapped(parse_arduino_data(line).pin)
    /\ Float32Overflows(parse_arduino_data(line).value)

\* C18: for an update the encoder faults on, create_osc_message returns the
\* empty result; the cycle that reads it begins no send, leaves the registry
\* and the broadcast state alone and ends in the polling sleep (nothing was
\* raised into the loop); no send ever carries an empty frame; and the
\* record read next after it is handled as any record: if it is one to
\* broadcast and the set is not empty, its frame is sent.
C18_Step ==
    /\ (nRead' = nRead + 1 /\ EncodeFaultLine(lastCycle'.line)) =>
          /\ DgramLen(FrameOf(lastCycle'.line)) = 0
          /\ lastCycle'.kind = "encode_fault"
          /\ sent' = sent
          /\ websocket_clients' = websocket_clients
          /\ <<client, iterRemaining, disconnected, pass>>' =
                <<client, iterRemaining, disconnected, pass>>
          /\ readerPc' = "sleep"
    /\ \A s \in Sinks : sent'[s] # sent[s] => DgramLen(sent'[s].frame) > 0
    /\ ( /\ nRead' = nRead + 1
         /\ lastCycle.kind = "encode_fault"
         /\ Disposition(lastCycle'.line) = "broadcast"
         /\ websocket_clients # {} )
       => \E s \in websocket_clients :
              /\ sent'[s].rec = nRead'
              /\ sent'[s].frame = FrameOf(lastCycle'.line)

C18_EncodeFaultDropped == [][C18_Step]_vars

\* C18 witness: with a subscriber in the set, the record "3:" followed by 45
\* nines was read, nothing was sent for it and the reader is in its polling
\* sleep.
C18_Witness ==
    /\ lastCycle.kind = "encode_fault"
    /\ EncodeFaultLine(lastCycle.line)
    /\ websocket_clients # {}
    /\ \A s \in Sinks : ~Attempted(s, nRead)
    /\ readerPc = "sleep"

\* C19: a line is read only when no broadcast is in progress (the pass of
\* the record before it has returned, raised or was never begun), and every
\* send begun to a sink carries the frame of the record read last, which is
\* later than the record of every frame sent to that sink before: no sink
\* is sent two frames out of the order of their records.
C19_Step ==
    /\ nRead' # nRead =>
          /\ readerPc # "send"
          /\ pass.outcome # "active"
          /\ client = 0
    /\ \A s \in Sinks :
          sent'[s] # sent[s] =>
             /\ sent'[s].rec = nRead'
             /\ sent'[s].rec > sent[s].rec
             /\ sent'[s].frame = osc_bytes'
             /\ pass'.rec = nRead'

C19_FramesInReadOrder == [][C19_Step]_vars

\* C19 witness: a sink that was sent the frame of one record has received
\* the frame of a later record.
C19_Witness ==
    \E s \in Sinks :
        /\ sent[s].prev >= 1
        /\ sent[s].rec > sent[s].prev
        /\ sent[s].rec = pass.rec
        /\ s \in delivered

\* C20: once shutdown has closed the serial port, no step touches it again:
\* no line is read, the input buffer is left as it is, and the reader starts
\* no polling cycle (the only thing a cycle in flight may still record is a
\* broadcast that ends by raising).
C20_Step ==
    serial_connection = "closed" =>
        /\ nRead' = nRead
        /\ in_waiting' = in_waiting
        /\ lastCycle' # lastCycle => lastCycle'.kind = "broadcast_raised"
        /\ ~CanStartCycle

C20_NoReadAfterClose == [][C20_Step]_vars

\* C20 witness: shutdown closed the port while the reader was alive, after a
\* cycle of its own, and the reader has ended at the top of its loop.
C20_Witness ==
    /\ serial_connection = "closed"
    /\ readerPc = "done"
    /\ lastCycle.kind # "none"

\* C12: in the TouchOSC bridge every message handed to osc_message_handler
\* while the set held subscribers has been built again with the same address
\* and arguments and has been passed on for sending: its broadcast is
\* scheduled on the event loop.
C12_EveryDatagramForwarded ==
    \A i \in 1..Len(oscLog) :
        oscLog[i].clients # {} =>
            /\ UpToNul(oscLog[i].dgram.address) = oscLog[i].address
            /\ oscLog[i].dgram.args = oscLog[i].args
            /\ oscLog[i].task

====
